---------------------------- MODULE Spec2Model ----------------------------
(***************************************************************************)
(* Model of the geometric core of py-eddy-tracker (the Cython module whose *)
(* source is src/unnamed/part_000): winding_number_poly / is_left,         *)
(* distance / distance_vector / distance_matrix, index_from_nearest_path / *)
(* dist_array_size / nearest_contour_index and fit_circle_c.               *)
(*                                                                         *)
(* Coordinates are integers: every product and sum the code forms on them  *)
(* is then exact in a double, so the integer arithmetic below is the       *)
(* arithmetic of the code on those inputs.  Arrays are sequences; the      *)
(* code's 0-based index i is position i + 1.                               *)
(***************************************************************************)
EXTENDS Integers, Sequences, FiniteSets, TLC

VARIABLES
    pc,          \* position of the call in progress
    xy_poly,     \* winding_number_poly: the ring, a sequence of <<x, y>>
    x_test,      \* winding_number_poly: the test point
    y_test,
    wn,          \* winding_number_poly: the value returned
    lon0,        \* distance_vector / distance_matrix: the four input arrays
    lat0,
    lon1,
    lat1,
    dist,        \* the output array (vector) or matrix (sequence of rows)
    i_elt,       \* distance_vector: loop index
    i_elt0,      \* distance_matrix: loop indices
    i_elt1,
    written,     \* positions of dist the call has stored to
    oob,         \* the call has read or written past the end of an array
    l_i,         \* contour collection: per level, index of its first contour
    nb_c_per_l,  \*   per level, number of contours
    nb_pt_per_c, \*   per contour, number of points
    indices_of_first_pts,   \* per contour, index of its first point
    x_value,     \*   the points of all contours, concatenated
    y_value,
    level_index, \* index_from_nearest_path: the level asked for
    xpt,         \* the target
    ypt,
    start,       \* nearest_contour_index: the range [start, end) scanned
    end,
    nearesti,    \* the offset nearest_contour_index returned
    result,      \* the value index_from_nearest_path returned
    x_vec,       \* fit_circle_c: the ring's coordinates
    y_vec,
    heap,        \* scratch buffers malloc'ed and not yet freed
    frees,       \* per scratch buffer, how many times free was called on it
    p_area2      \* 2 * p_area: the absolute value of the sum of the area loop

wnVars == <<xy_poly, x_test, y_test, wn>>
distVars == <<lon0, lat0, lon1, lat1, dist, i_elt, i_elt0, i_elt1, written, oob>>
collVars == <<l_i, nb_c_per_l, nb_pt_per_c, indices_of_first_pts, x_value, y_value>>
callVars == <<level_index, xpt, ypt, start, end, nearesti, result>>
idxVars == <<collVars, callVars>>
fitVars == <<x_vec, y_vec, heap, frees, p_area2>>
vars == <<pc, wnVars, distVars, idxVars, fitVars>>

notWn == <<distVars, idxVars, fitVars>>
notDist == <<wnVars, idxVars, fitVars>>
notIdx == <<wnVars, distVars, fitVars>>
notFit == <<wnVars, distVars, idxVars>>

\* ------------------------------------------------------------------------
\* The variables of a component no call of which is in progress
\* ------------------------------------------------------------------------

WnIdle == xy_poly = << >> /\ x_test = 0 /\ y_test = 0 /\ wn = 0

DistIdle ==
    /\ lon0 = << >> /\ lat0 = << >> /\ lon1 = << >> /\ lat1 = << >>
    /\ dist = << >> /\ i_elt = 0 /\ i_elt0 = 0 /\ i_elt1 = 0
    /\ written = {} /\ oob = FALSE

None == "None"

IdxIdle ==
    /\ l_i = << >> /\ nb_c_per_l = << >> /\ nb_pt_per_c = << >>
    /\ indices_of_first_pts = << >> /\ x_value = << >> /\ y_value = << >>
    /\ level_index = 0 /\ xpt = 0 /\ ypt = 0 /\ start = 0 /\ end = 0
    /\ nearesti = 0 /\ result = None

Buffers == {"p_inon_x", "p_inon_y"}

FitIdle ==
    /\ x_vec = << >> /\ y_vec = << >> /\ heap = {}
    /\ frees = [b \in Buffers |-> 0] /\ p_area2 = 0

\* ------------------------------------------------------------------------
\* Bounds and input domains
\* ------------------------------------------------------------------------

\* Longest ring handed to winding_number_poly and fit_circle_c.
MaxRing == 4

\* Longest array handed to distance_vector and distance_matrix.
MaxLen == 2

\* Most levels, contours and points of a contour collection.
MaxLevels == 2
MaxContours == 3
MaxPts == 3

\* Longest pair of arrays handed to nearest_contour_index directly.
MaxScan == 4

\* Coordinates the vertices are drawn from.
Coord == 0 .. 2
Grid == Coord \X Coord

Abs(n) == IF n < 0 THEN -n ELSE n

\* ------------------------------------------------------------------------
\* PolygonContainment: is_left, winding_number_poly
\* ------------------------------------------------------------------------

is_left(x_line_0, y_line_0, x_line_1, y_line_1, xt, yt) ==
    LET product == (x_line_1 - x_line_0) * (yt - y_line_0)
                   - (xt - x_line_0) * (y_line_1 - y_line_0)
    IN  product > 0

\* A plausible slip: the strict comparison in the outer test, so that an
\* edge starting at the height of the test point counts as starting above it.
wn_edge_strict(xt, yt, poly, i) ==
    LET nb_elt == Len(poly)
        x_cur  == poly[i + 1][1]
        y_cur  == poly[i + 1][2]
        x_next == IF i + 1 = nb_elt THEN poly[1][1] ELSE poly[i + 2][1]
        y_next == IF i + 1 = nb_elt THEN poly[1][2] ELSE poly[i + 2][2]
    IN  IF y_cur < yt
        THEN IF y_next > yt /\ is_left(x_cur, y_cur, x_next, y_next, xt, yt)
             THEN 1 ELSE 0
        ELSE IF y_next <= yt /\ ~is_left(x_cur, y_cur, x_next, y_next, xt, yt)
             THEN -1 ELSE 0

\* The body of the loop for edge i (0-based): what it adds to wn.
wn_edge(xt, yt, poly, i) ==
    LET nb_elt == Len(poly)
        x_cur  == poly[i + 1][1]
        y_cur  == poly[i + 1][2]
        x_next == IF i + 1 = nb_elt THEN poly[1][1] ELSE poly[i + 2][1]
        y_next == IF i + 1 = nb_elt THEN poly[1][2] ELSE poly[i + 2][2]
    IN  IF y_cur <= yt
        THEN IF y_next > yt /\ is_left(x_cur, y_cur, x_next, y_next, xt, yt)
             THEN 1 ELSE 0
        ELSE IF y_next <= yt /\ ~is_left(x_cur, y_cur, x_next, y_next, xt, yt)
             THEN -1 ELSE 0

RECURSIVE wn_loop(_, _, _, _, _, _)
wn_loop(xt, yt, poly, i, stop, acc) ==
    IF i >= stop THEN acc
    ELSE wn_loop(xt, yt, poly, i + 1, stop,
                 acc + wn_edge(xt, yt, poly, i))

\* A plausible slip: the loop stops before the closing edge.
winding_number_open(xt, yt, poly) ==
    IF Len(poly) = 0 THEN 0
    ELSE wn_loop(xt, yt, poly, 0, Len(poly) - 1, 0)

winding_number_poly(xt, yt, poly) ==
    wn_loop(xt, yt, poly, 0, Len(poly), 0)

\* ------------------------------------------------------------------------
\* GeoDistance: distance, distance_vector, distance_matrix
\*
\* Longitudes and latitudes are multiples of 90 degrees, where the haversine
\* terms are exact: sin(d * 0.5 * D2R) ** 2 is 0, 1/2 or 1, cos(l * D2R) is
\* 0, 1 or -1, a_val is 0, 1/2 or 1 and atan2(a_val ** 0.5, (1 - a_val) ** 0.5)
\* is 0, pi/4 or pi/2.  The model holds 2 * sin ** 2 and 2 * a_val (integers)
\* and the returned distance in units of pi/4 metres.
\* ------------------------------------------------------------------------

Lons == {0, 180}
Lats == {0, 90}

EarthRadius == 6371315

\* 2 * sin(deg * 0.5 * D2R) ** 2
SinSq2(deg) ==
    LET q == (Abs(deg) \div 90) % 4
    IN  CASE q = 0 -> 0 [] q = 1 -> 1 [] q = 2 -> 2 [] q = 3 -> 1

\* cos(deg * D2R)
Cos(deg) ==
    LET q == (Abs(deg) \div 90) % 4
    IN  CASE q = 0 -> 1 [] q = 1 -> 0 [] q = 2 -> -1 [] q = 3 -> 0

\* atan2(a_val ** 0.5, (1 - a_val) ** 0.5) in units of pi/4, from 2 * a_val
Atan2Units(a_val2) ==
    CASE a_val2 = 0 -> 0 [] a_val2 = 1 -> 1 [] a_val2 = 2 -> 2

distance(lo0, la0, lo1, la1) ==
    LET sin_dlat2 == SinSq2(la1 - la0)
        sin_dlon2 == SinSq2(lo1 - lo0)
        cos_lat1  == Cos(la0)
        cos_lat2  == Cos(la1)
        a_val2    == sin_dlon2 * cos_lat1 * cos_lat2 + sin_dlat2
    IN  EarthRadius * 2 * Atan2Units(a_val2)

\* What reading arr[i] (0-based) with bounds checking off can give: the
\* element, or, past the end, whatever the memory there holds.
ReadAt(arr, i, any) == IF i < Len(arr) THEN {arr[i + 1]} ELSE any

\* The values one iteration of distance_vector's loop can store for index i.
distance_vector_body(lo0, la0, lo1, la1, i) ==
    { LET sin_dlat2 == SinSq2(r[3] - r[1])
          sin_dlon2 == SinSq2(r[2] - lo0[i + 1])
          cos_lat1  == Cos(r[1])
          cos_lat2  == Cos(r[3])
          a_val2    == sin_dlon2 * cos_lat1 * cos_lat2 + sin_dlat2
      IN  EarthRadius * 2 * Atan2Units(a_val2) :
      r \in ReadAt(la0, i, Lats) \X ReadAt(lo1, i, Lons) \X ReadAt(la1, i, Lats) }

\* A plausible slip: the longitude term computed from the latitudes.
distance_matrix_body_dlat(lo0, la0, lo1, la1, i0, i1) ==
    LET sin_dlat2 == SinSq2(la1[i1 + 1] - la0[i0 + 1])
        sin_dlon2 == SinSq2(la1[i1 + 1] - la0[i0 + 1])
        cos_lat1  == Cos(la0[i0 + 1])
        cos_lat2  == Cos(la1[i1 + 1])
        a_val2    == sin_dlon2 * cos_lat1 * cos_lat2 + sin_dlat2
    IN  EarthRadius * 2 * Atan2Units(a_val2)

\* The value the inner loop of distance_matrix stores for cell (i0, i1).
distance_matrix_body(lo0, la0, lo1, la1, i0, i1) ==
    LET sin_dlat2 == SinSq2(la1[i1 + 1] - la0[i0 + 1])
        sin_dlon2 == SinSq2(lo1[i1 + 1] - lo0[i0 + 1])
        cos_lat1  == Cos(la0[i0 + 1])
        cos_lat2  == Cos(la1[i1 + 1])
        a_val2    == sin_dlon2 * cos_lat1 * cos_lat2 + sin_dlat2
    IN  EarthRadius * 2 * Atan2Units(a_val2)

\* ------------------------------------------------------------------------
\* Calls of distance_vector and distance_matrix
\* ------------------------------------------------------------------------

SeqsUpTo(S, n) == UNION {[1 .. k -> S] : k \in 0 .. n}

\* A cell of the output the call has not stored to.
Unset == 0 - 1

\* distance_vector is about to run on five arrays of any lengths;
\* distance_matrix on n0 and n1 points and an n0 x n1 matrix.
DistInit ==
    /\ pc \in {"dv_call", "dm_call"}
    /\ lon0 \in SeqsUpTo(Lons, MaxLen)
    /\ lat0 \in SeqsUpTo(Lats, MaxLen)
    /\ lon1 \in SeqsUpTo(Lons, MaxLen)
    /\ lat1 \in SeqsUpTo(Lats, MaxLen)
    /\ IF pc = "dv_call"
       THEN \E n \in 0 .. MaxLen : dist = [i \in 1 .. n |-> Unset]
       ELSE /\ Len(lat0) = Len(lon0)
            /\ Len(lat1) = Len(lon1)
            /\ dist = [i \in 1 .. Len(lon0) |-> [j \in 1 .. Len(lon1) |-> Unset]]
    /\ i_elt = 0 /\ i_elt0 = 0 /\ i_elt1 = 0
    /\ written = {} /\ oob = FALSE
    /\ WnIdle /\ IdxIdle /\ FitIdle

\* distance_vector: nb_elt = lon0.shape[0]; the loop starts.
VectorEnter ==
    /\ pc = "dv_call"
    /\ pc' = "dv_loop"
    /\ i_elt' = 0
    /\ UNCHANGED <<lon0, lat0, lon1, lat1, dist, i_elt0, i_elt1, written, oob, notDist>>

VectorAccessOob(i) ==
    i >= Len(lat0) \/ i >= Len(lon1) \/ i >= Len(lat1) \/ i >= Len(dist)

\* One iteration of distance_vector's loop.
VectorStep ==
    /\ pc = "dv_loop"
    /\ i_elt < Len(lon0)
    /\ \E v \in distance_vector_body(lon0, lat0, lon1, lat1, i_elt) :
          IF i_elt < Len(dist)
          THEN /\ dist' = [dist EXCEPT ![i_elt + 1] = v]
               /\ written' = written \cup {i_elt}
          ELSE UNCHANGED <<dist, written>>
    /\ oob' = (oob \/ VectorAccessOob(i_elt))
    /\ i_elt' = i_elt + 1
    /\ UNCHANGED <<pc, lon0, lat0, lon1, lat1, i_elt0, i_elt1, notDist>>

\* An access past the end of an array may also end the process.
VectorFault ==
    /\ pc = "dv_loop"
    /\ i_elt < Len(lon0)
    /\ VectorAccessOob(i_elt)
    /\ pc' = "dv_fault"
    /\ oob' = TRUE
    /\ UNCHANGED <<lon0, lat0, lon1, lat1, dist, i_elt, i_elt0, i_elt1, written, notDist>>

\* The loop is over: distance_vector returns.
VectorReturn ==
    /\ pc = "dv_loop"
    /\ i_elt >= Len(lon0)
    /\ pc' = "dv_done"
    /\ UNCHANGED <<distVars, notDist>>

\* distance_matrix: nb_elt0 = lon0.shape[0], nb_elt1 = lon1.shape[0].
MatrixEnter ==
    /\ pc = "dm_call"
    /\ pc' = "dm_loop"
    /\ i_elt0' = 0
    /\ i_elt1' = 0
    /\ UNCHANGED <<lon0, lat0, lon1, lat1, dist, i_elt, written, oob, notDist>>

\* One iteration of the inner loop.
MatrixStep ==
    /\ pc = "dm_loop"
    /\ i_elt0 < Len(lon0)
    /\ i_elt1 < Len(lon1)
    /\ dist' = [dist EXCEPT ![i_elt0 + 1][i_elt1 + 1] =
                   distance_matrix_body(lon0, lat0, lon1, lat1, i_elt0, i_elt1)]
    /\ written' = written \cup {<<i_elt0, i_elt1>>}
    /\ i_elt1' = i_elt1 + 1
    /\ UNCHANGED <<pc, lon0, lat0, lon1, lat1, i_elt, i_elt0, oob, notDist>>

\* The inner loop is over: the outer loop goes to the next row.
MatrixNextRow ==
    /\ pc = "dm_loop"
    /\ i_elt0 < Len(lon0)
    /\ i_elt1 >= Len(lon1)
    /\ i_elt0' = i_elt0 + 1
    /\ i_elt1' = 0
    /\ UNCHANGED <<pc, lon0, lat0, lon1, lat1, dist, i_elt, written, oob, notDist>>

\* The outer loop is over: distance_matrix returns.
MatrixReturn ==
    /\ pc = "dm_loop"
    /\ i_elt0 >= Len(lon0)
    /\ pc' = "dm_done"
    /\ UNCHANGED <<distVars, notDist>>

DistNext ==
    \/ VectorEnter \/ VectorStep \/ VectorFault \/ VectorReturn
    \/ MatrixEnter \/ MatrixStep \/ MatrixNextRow \/ MatrixReturn

SpecDist == DistInit /\ [][DistNext]_vars

SameLengths ==
    /\ Len(lat0) = Len(lon0) /\ Len(lon1) = Len(lon0)
    /\ Len(lat1) = Len(lon0) /\ Len(dist) = Len(lon0)

InVector == pc \in {"dv_call", "dv_loop", "dv_done", "dv_fault"}

\* C5: distance_vector called with arrays that do not all have the same
\* length is rejected at once: it does not return normally, it stores to no
\* element of the output and it accesses no index past the end of an array.
C5_MismatchRejected ==
    (InVector /\ ~SameLengths) =>
        (pc # "dv_done" /\ written = {} /\ ~oob)

\* C8: after distance_vector on equal-length arrays dist[i] is
\* distance(lon0[i], lat0[i], lon1[i], lat1[i]) for every i; after
\* distance_matrix every cell dist[i][j] has been written and is
\* distance(lon0[i], lat0[i], lon1[j], lat1[j]).
C8_VectorisedAgree ==
    /\ (pc = "dv_done" /\ SameLengths) =>
          \A i \in 1 .. Len(lon0) :
              dist[i] = distance(lon0[i], lat0[i], lon1[i], lat1[i])
    /\ pc = "dm_done" =>
          \A i \in 1 .. Len(lon0) : \A j \in 1 .. Len(lon1) :
              /\ <<i - 1, j - 1>> \in written
              /\ dist[i][j] = distance(lon0[i], lat0[i], lon1[j], lat1[j])

C8_Witness ==
    /\ pc = "dm_done"
    /\ Len(lon0) = 2 /\ Len(lon1) = 2
    /\ dist[1][2] # dist[2][1]
    /\ dist[1][1] # dist[1][2]

\* ------------------------------------------------------------------------
\* Calls of winding_number_poly
\* ------------------------------------------------------------------------

\* The square of the specification's round-trip scenario and its two points.
SquareExample == << <<0, 0>>, <<0, 10>>, <<10, 10>>, <<10, 0>> >>
TestPoints == Grid \cup {<<5, 5>>, <<15, 15>>}

WnInit ==
    /\ pc = "wn_build"
    /\ xy_poly \in {<< >>, SquareExample}
    /\ x_test = 0 /\ y_test = 0 /\ wn = 0
    /\ DistIdle /\ IdxIdle /\ FitIdle

\* The caller appends one more vertex to the ring it will pass.
AddVertex ==
    /\ pc = "wn_build"
    /\ Len(xy_poly) < MaxRing
    /\ \E v \in Grid : xy_poly' = Append(xy_poly, v)
    /\ UNCHANGED <<pc, x_test, y_test, wn, notWn>>

\* winding_number_poly(x_test, y_test, xy_poly) is called and returns.
WindingCall ==
    /\ pc = "wn_build"
    /\ \E p \in TestPoints :
          /\ x_test' = p[1]
          /\ y_test' = p[2]
          /\ wn' = winding_number_poly(p[1], p[2], xy_poly)
    /\ pc' = "wn_done"
    /\ UNCHANGED <<xy_poly, notWn>>

WnNext == AddVertex \/ WindingCall

SpecWn == WnInit /\ [][WnNext]_vars

\* ------------------------------------------------------------------------
\* Plane geometry the claims are stated in (independent of the code)
\* ------------------------------------------------------------------------

Min(a, b) == IF a < b THEN a ELSE b
Max(a, b) == IF a < b THEN b ELSE a

\* Twice the signed area of the triangle a, b, c.
Orient(a, b, c) ==
    (b[1] - a[1]) * (c[2] - a[2]) - (c[1] - a[1]) * (b[2] - a[2])

Sign(n) == IF n < 0 THEN -1 ELSE IF n > 0 THEN 1 ELSE 0

\* p lies on the closed segment [a, b].
OnSegment(p, a, b) ==
    /\ Orient(a, b, p) = 0
    /\ Min(a[1], b[1]) <= p[1] /\ p[1] <= Max(a[1], b[1])
    /\ Min(a[2], b[2]) <= p[2] /\ p[2] <= Max(a[2], b[2])

\* The open segments cross at one interior point of both.
ProperCross(a, b, c, d) ==
    /\ Sign(Orient(a, b, c)) * Sign(Orient(a, b, d)) < 0
    /\ Sign(Orient(c, d, a)) * Sign(Orient(c, d, b)) < 0

\* The closed segments share at least one point.
SegmentsMeet(a, b, c, d) ==
    \/ ProperCross(a, b, c, d)
    \/ OnSegment(c, a, b) \/ OnSegment(d, a, b)
    \/ OnSegment(a, c, d) \/ OnSegment(b, c, d)

\* Edge i (1-based) of the closed ring: from vertex i to its cyclic successor.
EdgeFrom(poly, i) == poly[i]
EdgeTo(poly, i) == poly[(i % Len(poly)) + 1]

\* A simple polygon: distinct vertices, neighbouring edges meet only in
\* their common vertex, other edges do not meet at all.
IsSimple(poly) ==
    LET n == Len(poly) IN
    /\ n >= 3
    /\ \A i, j \in 1 .. n : i < j => poly[i] # poly[j]
    /\ \A i, j \in 1 .. n : i < j =>
          LET a == EdgeFrom(poly, i)  b == EdgeTo(poly, i)
              c == EdgeFrom(poly, j)  d == EdgeTo(poly, j)
          IN  IF j = i + 1
              THEN ~OnSegment(a, b, d) /\ ~OnSegment(d, b, a)
              ELSE IF i = 1 /\ j = n
              THEN ~OnSegment(c, a, b) /\ ~OnSegment(b, a, c)
              ELSE ~SegmentsMeet(a, b, c, d)

OnBoundary(p, poly) ==
    \E i \in 1 .. Len(poly) : OnSegment(p, EdgeFrom(poly, i), EdgeTo(poly, i))

\* The far end of a ray from p of direction (20, 1): it passes through no
\* other lattice point within 20 columns of p, so through no vertex, and it
\* ends above every vertex.
RayEnd(p) == <<p[1] + 20 * 20, p[2] + 20>>

\* Even-odd rule: p, off the boundary of a simple polygon, is inside iff the
\* ray from p crosses an odd number of edges.
StrictlyInside(p, poly) ==
    Cardinality({i \in 1 .. Len(poly) :
        ProperCross(p, RayEnd(p), EdgeFrom(poly, i), EdgeTo(poly, i))}) % 2 = 1

Reverse(poly) == [i \in 1 .. Len(poly) |-> poly[Len(poly) + 1 - i]]
Rotate(poly, k) == [i \in 1 .. Len(poly) |-> poly[((i - 1 + k) % Len(poly)) + 1]]

\* C2: for a simple ring of at least 3 vertices and a test point off its
\* edges, winding_number returns 0 exactly when the point is strictly
\* outside and a nonzero value exactly when it is strictly inside; for the
\* square (0,0),(0,10),(10,10),(10,0) it is nonzero at (5,5) and 0 at (15,15).
C2_ZeroIffOutside ==
    pc = "wn_done" =>
        /\ (IsSimple(xy_poly) /\ ~OnBoundary(<<x_test, y_test>>, xy_poly)) =>
              ((wn = 0) <=> ~StrictlyInside(<<x_test, y_test>>, xy_poly))
        /\ (xy_poly = SquareExample /\ x_test = 5 /\ y_test = 5) => wn # 0
        /\ (xy_poly = SquareExample /\ x_test = 15 /\ y_test = 15) => wn = 0

C2_Witness ==
    /\ pc = "wn_done"
    /\ IsSimple(xy_poly)
    /\ xy_poly # SquareExample
    /\ ~OnBoundary(<<x_test, y_test>>, xy_poly)
    /\ StrictlyInside(<<x_test, y_test>>, xy_poly)
    /\ wn # 0

\* C3: for every ring and every test point, points on an edge or a vertex
\* included, winding_number is 0 for the ring exactly when it is 0 for the
\* reversed ring.
C3_ReversalKeepsZero ==
    pc = "wn_done" =>
        ((wn = 0) <=> (winding_number_poly(x_test, y_test, Reverse(xy_poly)) = 0))

\* C7: for a ring of n >= 1 vertices, a test point and k in 0 .. n-1, the
\* ring rotated to start at vertex k has the same winding number, as a
\* signed integer.
C7_RotationInvariant ==
    (pc = "wn_done" /\ Len(xy_poly) >= 1) =>
        \A k \in 0 .. Len(xy_poly) - 1 :
            winding_number_poly(x_test, y_test, Rotate(xy_poly, k)) = wn

C7_Witness ==
    /\ pc = "wn_done"
    /\ Len(xy_poly) >= 3
    /\ wn < 0
    /\ \A k \in 1 .. Len(xy_poly) - 1 : Rotate(xy_poly, k) # xy_poly

\* ------------------------------------------------------------------------
\* ContourIndex: dist_array_size, nearest_contour_index,
\* index_from_nearest_path
\*
\* The indices are the code's unsigned 32-bit integers; the collections here
\* keep every sum and difference formed on them inside 0 .. MaxPts, so none
\* wraps.
\* ------------------------------------------------------------------------

RECURSIVE SumRange(_, _, _)
SumRange(arr, from, to) ==
    IF from >= to THEN 0 ELSE arr[from + 1] + SumRange(arr, from + 1, to)

\* <<i_start, i_end, i_contour, i_contour + nb_pts>>
dist_array_size(li, nb_c, npc, c_i) ==
    LET i_start   == li
        i_end     == i_start + nb_c
        nb_pts    == SumRange(npc, i_start, i_end)
        i_contour == c_i[i_start + 1]
    IN  <<i_start, i_end, i_contour, i_contour + nb_pts>>

SqDist(xv, yv, i, tx, ty) ==
    (xv[i + 1] - tx) * (xv[i + 1] - tx) + (yv[i + 1] - ty) * (yv[i + 1] - ty)

\* A plausible slip: the non-strict comparison, so that the last minimizer wins.
RECURSIVE nearest_loop_le(_, _, _, _, _, _, _, _)
nearest_loop_le(xv, yv, tx, ty, i, e0, i_ref, dist_ref) ==
    IF i >= e0 THEN i_ref
    ELSE IF SqDist(xv, yv, i, tx, ty) <= dist_ref
         THEN nearest_loop_le(xv, yv, tx, ty, i + 1, e0, i, SqDist(xv, yv, i, tx, ty))
         ELSE nearest_loop_le(xv, yv, tx, ty, i + 1, e0, i_ref, dist_ref)

\* The loop of nearest_contour_index from index i on: the final i_ref.
RECURSIVE nearest_loop(_, _, _, _, _, _, _, _)
nearest_loop(xv, yv, tx, ty, i, e0, i_ref, dist_ref) ==
    IF i >= e0 THEN i_ref
    ELSE IF SqDist(xv, yv, i, tx, ty) < dist_ref
         THEN nearest_loop(xv, yv, tx, ty, i + 1, e0, i, SqDist(xv, yv, i, tx, ty))
         ELSE nearest_loop(xv, yv, tx, ty, i + 1, e0, i_ref, dist_ref)

\* With an empty range at the end of the arrays the first read, of
\* x_value[start], is past their end: what it gives is never compared.
nearest_contour_index(xv, yv, tx, ty, s0, e0) ==
    LET dist_ref == IF s0 < Len(xv) THEN SqDist(xv, yv, s0, tx, ty) ELSE 0
    IN  nearest_loop(xv, yv, tx, ty, s0, e0, s0, dist_ref) - s0

\* A plausible slip: the boundary that equals the offset already stops the scan.
RECURSIVE owner_scan_ge(_, _, _, _, _)
owner_scan_ge(first, main_start, main_stop, i, near) ==
    IF i >= main_stop THEN i - 1 - main_start
    ELSE IF first[i + 1] - first[main_start + 1] >= near
         THEN i - 1 - main_start
         ELSE owner_scan_ge(first, main_start, main_stop, i + 1, near)

\* The closing loop of index_from_nearest_path from i_elt = i on; when the
\* loop runs to its end i_elt is main_stop at the final return.
RECURSIVE owner_scan(_, _, _, _, _)
owner_scan(first, main_start, main_stop, i, near) ==
    IF i >= main_stop THEN i - 1 - main_start
    ELSE IF first[i + 1] - first[main_start + 1] > near
         THEN i - 1 - main_start
         ELSE owner_scan(first, main_start, main_stop, i + 1, near)

\* The value returned and, beside it, the local nearesti.
index_from_nearest_path(lvl, li, ncl, npc, first, xv, yv, tx, ty) ==
    LET nb_contour == ncl[lvl + 1] IN
    IF nb_contour = 0 THEN [nearesti |-> 0, ret |-> None]
    ELSE LET d    == dist_array_size(li[lvl + 1], nb_contour, npc, first)
             near == nearest_contour_index(yv, yv, tx, ty, d[3], d[4])
         IN  [nearesti |-> near, ret |-> owner_scan(first, d[1], d[2], d[1], near)]

\* ------------------------------------------------------------------------
\* Contour collections and calls of index_from_nearest_path
\* ------------------------------------------------------------------------

\* Coordinates of the targets, and the points the contours are made of.
PtCoord == 0 .. 1
ContourPts == {<<0, 0>>, <<1, 0>>, <<0, 1>>}

IdxInit ==
    /\ pc = "idx_build"
    /\ IdxIdle
    /\ WnIdle /\ DistIdle /\ FitIdle

\* The caller opens a new level, after the contours of the levels before it.
NewLevel ==
    /\ pc = "idx_build"
    /\ Len(l_i) < MaxLevels
    /\ l_i' = Append(l_i, Len(nb_pt_per_c))
    /\ nb_c_per_l' = Append(nb_c_per_l, 0)
    /\ UNCHANGED <<pc, nb_pt_per_c, indices_of_first_pts, x_value, y_value,
                   callVars, notIdx>>

\* The caller opens a new contour in the last level, after the points so far.
NewContour ==
    /\ pc = "idx_build"
    /\ Len(l_i) >= 1
    /\ Len(nb_pt_per_c) < MaxContours
    /\ nb_c_per_l' = [nb_c_per_l EXCEPT ![Len(nb_c_per_l)] = @ + 1]
    /\ nb_pt_per_c' = Append(nb_pt_per_c, 0)
    /\ indices_of_first_pts' = Append(indices_of_first_pts, Len(x_value))
    /\ UNCHANGED <<pc, l_i, x_value, y_value, callVars, notIdx>>

\* The caller appends a point to the last contour.
AddPoint ==
    /\ pc = "idx_build"
    /\ Len(nb_pt_per_c) >= 1
    /\ nb_c_per_l[Len(nb_c_per_l)] >= 1
    /\ Len(x_value) < MaxPts
    /\ \E pt \in ContourPts :
          /\ x_value' = Append(x_value, pt[1])
          /\ y_value' = Append(y_value, pt[2])
    /\ nb_pt_per_c' = [nb_pt_per_c EXCEPT ![Len(nb_pt_per_c)] = @ + 1]
    /\ UNCHANGED <<pc, l_i, nb_c_per_l, indices_of_first_pts, callVars, notIdx>>

\* index_from_nearest_path(level_index, ..., xpt, ypt) is called and returns.
IndexCall ==
    /\ pc = "idx_build"
    /\ \E lvl \in 0 .. Len(l_i) - 1, tx \in PtCoord, ty \in PtCoord :
          LET r == index_from_nearest_path(lvl, l_i, nb_c_per_l, nb_pt_per_c,
                       indices_of_first_pts, x_value, y_value, tx, ty)
          IN  /\ level_index' = lvl
              /\ xpt' = tx
              /\ ypt' = ty
              /\ nearesti' = r.nearesti
              /\ result' = r.ret
    /\ pc' = "idx_done"
    /\ UNCHANGED <<collVars, start, end, notIdx>>

IdxNext == NewLevel \/ NewContour \/ AddPoint \/ IndexCall

SpecIdx == IdxInit /\ [][IdxNext]_vars

\* ------------------------------------------------------------------------
\* Calls of nearest_contour_index on two flat arrays
\* ------------------------------------------------------------------------

NearestInit ==
    /\ pc = "nearest_build"
    /\ IdxIdle
    /\ WnIdle /\ DistIdle /\ FitIdle

\* The caller appends a point to the arrays.
AppendPoint ==
    /\ pc = "nearest_build"
    /\ Len(x_value) < MaxScan
    /\ \E px \in PtCoord, py \in PtCoord :
          /\ x_value' = Append(x_value, px)
          /\ y_value' = Append(y_value, py)
    /\ UNCHANGED <<pc, l_i, nb_c_per_l, nb_pt_per_c, indices_of_first_pts,
                   callVars, notIdx>>

\* nearest_contour_index(x_value, y_value, xpt, ypt, start, end) is called
\* on a non-empty range of the arrays and returns.
NearestCall ==
    /\ pc = "nearest_build"
    /\ \E s0 \in 0 .. Len(x_value) - 1, e0 \in 1 .. Len(x_value),
          tx \in PtCoord, ty \in PtCoord :
          /\ s0 < e0
          /\ start' = s0
          /\ end' = e0
          /\ xpt' = tx
          /\ ypt' = ty
          /\ nearesti' = nearest_contour_index(x_value, y_value, tx, ty, s0, e0)
    /\ pc' = "nearest_done"
    /\ UNCHANGED <<collVars, level_index, result, notIdx>>

NearestNext == AppendPoint \/ NearestCall

SpecNearest == NearestInit /\ [][NearestNext]_vars

\* The level asked for: its contours main_start .. main_stop - 1, its
\* points pt_start .. pt_stop - 1.
LvlMainStart == l_i[level_index + 1]
LvlNb == nb_c_per_l[level_index + 1]
LvlPtStart == indices_of_first_pts[LvlMainStart + 1]
LvlNbPts == SumRange(nb_pt_per_c, LvlMainStart, LvlMainStart + LvlNb)
LvlFirst(k) == indices_of_first_pts[LvlMainStart + k + 1] - LvlPtStart

\* Squared distance of point i (0-based) of the collection to the target.
TrueSqDist(i) ==
    (x_value[i + 1] - xpt) * (x_value[i + 1] - xpt)
    + (y_value[i + 1] - ypt) * (y_value[i + 1] - ypt)

\* The first point of [from, to) at minimal distance from the target.
FirstNearest(from, to) ==
    CHOOSE i \in from .. to - 1 :
        /\ \A j \in from .. to - 1 : TrueSqDist(i) <= TrueSqDist(j)
        /\ \A j \in from .. i - 1 : TrueSqDist(j) > TrueSqDist(i)

\* The contour of the level that holds the level's point of offset p.
OwnerOf(p) ==
    CHOOSE k \in 0 .. LvlNb - 1 :
        LvlFirst(k) <= p /\ p < LvlFirst(k) + nb_pt_per_c[LvlMainStart + k + 1]

\* k is the last contour of the level whose first point is not after offset p.
Owns(k, p) ==
    /\ k \in 0 .. LvlNb - 1
    /\ LvlFirst(k) <= p
    /\ (k = LvlNb - 1 \/ LvlFirst(k + 1) > p)

\* C1: on a level with at least one point, index_from_nearest_path returns
\* the contour that owns the level's point nearest to (xpt, ypt) in squared
\* Euclidean distance over x_value and y_value, lowest index on ties.
C1_NearestContour ==
    (pc = "idx_done" /\ LvlNb >= 1 /\ LvlNbPts >= 1) =>
        result = OwnerOf(FirstNearest(LvlPtStart, LvlPtStart + LvlNbPts) - LvlPtStart)

\* C4: on a non-empty range [start, end), nearest_contour_index returns the
\* offset of the first point of the range at minimal squared distance from
\* the target; it is 0 when the target is the point at start.
C4_FirstMinimizer ==
    pc = "nearest_done" =>
        /\ nearesti \in 0 .. end - start - 1
        /\ start + nearesti = FirstNearest(start, end)
        /\ (x_value[start + 1] = xpt /\ y_value[start + 1] = ypt) => nearesti = 0

C4_Witness ==
    /\ pc = "nearest_done"
    /\ end - start = 3
    /\ nearesti = 1
    /\ TrueSqDist(start + 2) = TrueSqDist(start + 1)

\* C9: for a level of nb >= 1 contours with at least one point, the scan
\* that closes index_from_nearest_path returns, for the offset nearesti and
\* for every offset p of a point of the level, the contour k of 0 .. nb-1
\* with first[k] - first[0] <= p and (k = nb-1 or first[k+1] - first[0] > p).
C9_OwnershipScan ==
    (pc = "idx_done" /\ LvlNb >= 1 /\ LvlNbPts >= 1) =>
        /\ nearesti \in 0 .. LvlNbPts - 1
        /\ Owns(result, nearesti)
        /\ \A p \in 0 .. LvlNbPts - 1 :
              Owns(owner_scan(indices_of_first_pts, LvlMainStart,
                              LvlMainStart + LvlNb, LvlMainStart, p), p)

\* The nearest point is in the last contour of a later level that also
\* holds a contour without points.
C9_Witness ==
    /\ pc = "idx_done"
    /\ level_index >= 1
    /\ LvlNb >= 2
    /\ LvlPtStart >= 1
    /\ LvlNbPts >= 1
    /\ \E k \in 0 .. LvlNb - 2 : nb_pt_per_c[LvlMainStart + k + 1] = 0
    /\ result = LvlNb - 1
    /\ nearesti >= LvlFirst(LvlNb - 1)

\* ------------------------------------------------------------------------
\* CircleFitter: fit_circle_c
\*
\* The model follows the call through its allocations, its exits and its
\* area loop.  The least-squares solve and the projection onto the circle
\* work on real numbers; the model keeps only whether they raise.
\* ------------------------------------------------------------------------

\* x_vec[i] * y_vec[1 + i] - x_vec[1 + i] * y_vec[i], i 0-based
ShoelaceTerm(xs, ys, i) ==
    xs[i + 1] * ys[i + 2] - xs[i + 2] * ys[i + 1]

RECURSIVE area_loop(_, _, _, _, _)
area_loop(xs, ys, i, stop, acc) ==
    IF i >= stop THEN acc
    ELSE area_loop(xs, ys, i + 1, stop, acc + ShoelaceTerm(xs, ys, i))

\* p_area before "p_area = abs(p_area) * .5": the sum the loop
\* "for i_elt from 0 <= i_elt < (nb_elt - 1)" leaves, nb_elt >= 1.
shoelace_sum(xs, ys) ==
    area_loop(xs, ys, 0, Len(xs) - 1, 0)

FitInit ==
    /\ pc = "fit_call"
    /\ x_vec \in SeqsUpTo(Coord, MaxRing)
    /\ y_vec \in SeqsUpTo(Coord, MaxRing)
    /\ Len(y_vec) = Len(x_vec)
    /\ heap = {}
    /\ frees = [b \in Buffers |-> 0]
    /\ p_area2 = 0
    /\ WnIdle /\ DistIdle /\ IdxIdle

\* Line 32-34: malloc of p_inon_x; MemoryError when it returns NULL.
FitMallocX ==
    /\ pc = "fit_call"
    /\ \/ heap' = heap \cup {"p_inon_x"} /\ pc' = "fit_malloc_y"
       \/ heap' = heap /\ pc' = "fit_raised"
    /\ UNCHANGED <<x_vec, y_vec, frees, p_area2, notFit>>

\* Line 35-37: malloc of p_inon_y; MemoryError when it returns NULL.
FitMallocY ==
    /\ pc = "fit_malloc_y"
    /\ \/ heap' = heap \cup {"p_inon_y"} /\ pc' = "fit_mean"
       \/ heap' = heap /\ pc' = "fit_raised"
    /\ UNCHANGED <<x_vec, y_vec, frees, p_area2, notFit>>

\* Line 39-46: the centroid; the division by nb_elt raises
\* ZeroDivisionError on an empty ring.
FitMean ==
    /\ pc = "fit_mean"
    /\ pc' = IF Len(x_vec) = 0 THEN "fit_raised" ELSE "fit_scale"
    /\ UNCHANGED <<fitVars, notFit>>

AllCoincide(xs, ys) ==
    \A i \in 1 .. Len(xs) : xs[i] = xs[1] /\ ys[i] = ys[1]

\* Line 48-57: norme_max and scale; the division by scale raises
\* ZeroDivisionError when every point is the centroid.
FitScale ==
    /\ pc = "fit_scale"
    /\ pc' = IF AllCoincide(x_vec, y_vec) THEN "fit_raised" ELSE "fit_solve"
    /\ UNCHANGED <<fitVars, notFit>>

\* Line 59-74: the least-squares solve, the circle and its area.
FitSolve ==
    /\ pc = "fit_solve"
    /\ pc' = "fit_project"
    /\ UNCHANGED <<fitVars, notFit>>

\* Line 77-87: every vertex outside the circle is projected onto it; the
\* division by (center_y - y_vec[i_elt]) raises ZeroDivisionError when
\* such a vertex has the centre's y.
FitProject ==
    /\ pc = "fit_project"
    /\ \/ pc' = "fit_area"
       \/ pc' = "fit_raised"
    /\ UNCHANGED <<fitVars, notFit>>

\* Line 90-99: the area loop, then p_area = abs(p_area) * .5.
FitArea ==
    /\ pc = "fit_area"
    /\ p_area2' = Abs(shoelace_sum(x_vec, y_vec))
    /\ pc' = "fit_free"
    /\ UNCHANGED <<x_vec, y_vec, heap, frees, notFit>>

\* Line 100-101: both scratch buffers are freed.
FitFree ==
    /\ pc = "fit_free"
    /\ heap' = heap \ {"p_inon_x", "p_inon_y"}
    /\ frees' = [b \in Buffers |-> frees[b] + 1]
    /\ pc' = "fit_return"
    /\ UNCHANGED <<x_vec, y_vec, p_area2, notFit>>

\* Line 102-105: a_err, whose division by c_area raises ZeroDivisionError
\* when the fitted radius is 0; else the tuple is returned.
FitReturn ==
    /\ pc = "fit_return"
    /\ \/ pc' = "fit_returned"
       \/ pc' = "fit_raised"
    /\ UNCHANGED <<fitVars, notFit>>

FitNext ==
    \/ FitMallocX \/ FitMallocY \/ FitMean \/ FitScale \/ FitSolve
    \/ FitProject \/ FitArea \/ FitFree \/ FitReturn

SpecFit == FitInit /\ [][FitNext]_vars

\* C6: on every exit of fit_circle, error exits included, every scratch
\* buffer the call allocated has been released exactly once: none is still
\* allocated when the call ends.
C6_NoLeakOnExit ==
    pc \in {"fit_returned", "fit_raised"} =>
        /\ heap = {}
        /\ \A b \in Buffers : frees[b] <= 1

\* The ring fit_circle_c was given, as a sequence of <<x, y>>.
FitRing == [i \in 1 .. Len(x_vec) |-> <<x_vec[i], y_vec[i]>>]

\* The shoelace sum over all n edges of the closed ring, the edge from the
\* last vertex back to the first included.
ClosedShoelace(xs, ys) ==
    LET n == Len(xs)
        Term(i) == xs[i] * ys[(i % n) + 1] - xs[(i % n) + 1] * ys[i]
        Sum[i \in 0 .. n] == IF i = 0 THEN 0 ELSE Sum[i - 1] + Term(i)
    IN  Sum[n]

\* C10: for a ring of n >= 3 vertices (a valid polygon) stored without a
\* repeated closing vertex, p_area is 0.5 * |sum over i in 0 .. n-1 of
\* x[i] * y[(i+1) mod n] - x[(i+1) mod n] * y[i]|, the closing edge from
\* vertex n-1 back to vertex 0 included.
C10_ClosedRingArea ==
    (pc \in {"fit_free", "fit_return", "fit_returned"} /\ IsSimple(FitRing)) =>
        p_area2 = Abs(ClosedShoelace(x_vec, y_vec))

====
